---- MODULE Spec2Model ----
(***************************************************************************)
(* IRrecvDumpV2-yamato.cpp: the sketch's setup()/loop() and its three      *)
(* formatters dumpInfo, dumpRaw and dumpCode.                              *)
(*                                                                         *)
(* Serial output is modelled as the sequence of items handed to            *)
(* Serial.print/println/printf, in order: a text item, a decimal item      *)
(* (with its printf conversion) or a hexadecimal item.  A number is never  *)
(* merged with the text around it, so what separates two numbers in the    *)
(* output is exactly the items printed between them.                       *)
(*                                                                         *)
(* Specifications:                                                         *)
(*   Spec      the sketch as it is compiled: setup(), then loop() forever. *)
(*             The decode/dump block of loop() (lines 207-214) is inside   *)
(*             `#if 0`, so Spec never calls a formatter.                   *)
(*   SpecDump  the formatters applied, in the order of that block, to a    *)
(*             decode_results drawn from bounded sets (short captures,     *)
(*             all combinations of tick values).                           *)
(*   SpecLong  the same actions on long captures (more than 200 entries).  *)
(*   SpecEmit  the chunking loop of dumpCode applied to every duration.    *)
(***************************************************************************)
EXTENDS Integers, Sequences, FiniteSets

VARIABLES pc, out, results, idx, length, yieldLog,
          saveBuf, recvEnabled, sendBegun, restarts, sends,
          usecs, chunk

vars == <<pc, out, results, idx, length, yieldLog,
          saveBuf, recvEnabled, sendBegun, restarts, sends,
          usecs, chunk>>

(***************************************************************************)
(* Program constants.                                                      *)
(***************************************************************************)
RAWTICK == 2
UINT16_MAX == 65535
CAPTURE_BUFFER_SIZE == 1024

(***************************************************************************)
(* Bounds of the model.                                                    *)
(***************************************************************************)
MaxRawLen == 3
MaxLongLen == 202
MaxRestarts == 4
MaxSends == 24

(* Tick values of the short captures: 0, a typical mark, the two values
   whose duration straddles 65535 us, a value in between, and the maximum. *)
TickValues == {0, 309, 32767, 32768, 40000, 65535}

(***************************************************************************)
(* Output items.                                                           *)
(***************************************************************************)
Txt(s) == [k |-> "txt", s |-> s, n |-> 0]
Dec(n) == [k |-> "dec", s |-> "%d", n |-> n]
Dec6(n) == [k |-> "dec", s |-> "%6d", n |-> n]
Hex(n) == [k |-> "hex", s |-> "%x", n |-> n]
NL == Txt("\n")

IsNum(t) == t.k = "dec"

RECURSIVE Sum(_)
Sum(s) == IF s = <<>> THEN 0 ELSE Head(s) + Sum(Tail(s))

(* The numbers of a sequence of items, in order. *)
Values(s) ==
    LET nums == SelectSeq(s, IsNum)
    IN  [j \in 1..Len(nums) |-> nums[j].n]

(***************************************************************************)
(* encoding(): the display name of decode_type, then " (Repeat)".          *)
(***************************************************************************)
encodingName(t) ==
    CASE t = "NEC" -> "NEC"
      [] t = "NEC_LIKE" -> "NEC (non-strict)"
      [] t = "SONY" -> "SONY"
      [] t = "RC5" -> "RC5"
      [] t = "RC5X" -> "RC5X"
      [] t = "RC6" -> "RC6"
      [] t = "RCMM" -> "RCMM"
      [] t = "DISH" -> "DISH"
      [] t = "SHARP" -> "SHARP"
      [] t = "JVC" -> "JVC"
      [] t = "SANYO" -> "SANYO"
      [] t = "SANYO_LC7461" -> "SANYO_LC7461"
      [] t = "MITSUBISHI" -> "MITSUBISHI"
      [] t = "SAMSUNG" -> "SAMSUNG"
      [] t = "LG" -> "LG"
      [] t = "WHYNTER" -> "WHYNTER"
      [] t = "AIWA_RC_T501" -> "AIWA_RC_T501"
      [] t = "PANASONIC" -> "PANASONIC"
      [] t = "DENON" -> "DENON"
      [] t = "COOLIX" -> "COOLIX"
      [] t = "YAMATO" -> "YAMATO"
      [] OTHER -> "UNKNOWN"

encoding(r) ==
    <<Txt(encodingName(r.decode_type))>>
    \o (IF r.repeat THEN <<Txt(" (Repeat)")>> ELSE <<>>)

(***************************************************************************)
(* dumpInfo(): the overflow warning, the encoding line, the code line.     *)
(***************************************************************************)
OverflowWarning ==
    <<Txt("WARNING: IR code too big for buffer (>= "),
      Dec(CAPTURE_BUFFER_SIZE),
      Txt("). These results shouldn't be trusted until this is resolved. Edit & increase CAPTURE_BUFFER_SIZE.\n")>>

dumpInfoNoWarning(r) ==
    <<Txt("Encoding  : ")>> \o encoding(r) \o <<NL>>
    \o <<Txt("Code      : "), Hex(r.value), Txt(" ("), Dec(r.bits), Txt(" bits)"), NL>>

dumpInfoOut(r) ==
    (IF r.overflow THEN OverflowWarning ELSE <<>>)
    \o <<Txt("Encoding  : ")>> \o encoding(r) \o <<NL>>
    \o <<Txt("Code      : "), Hex(r.value), Txt(" ("), Dec(r.bits), Txt(" bits)"), NL>>

(***************************************************************************)
(* getCookedLength(): uint16_t length.  usecs is uint32_t and a tick is at  *)
(* most 65535, so rawbuf[i] * RAWTICK never wraps.                         *)
(***************************************************************************)
getCookedLengthInit(r) == (r.rawlen - 1) % 65536

(* One iteration of the loop: length += (usecs / UINT16_MAX) * 2. *)
getCookedLengthAdd(r, i, len) ==
    (len + ((r.rawbuf[i] * RAWTICK) \div UINT16_MAX) * 2) % 65536

(***************************************************************************)
(* dumpRaw(): header, one entry per loop iteration, closing newline.       *)
(***************************************************************************)
dumpRawHeader(r) == <<Txt("Timing["), Dec(r.rawlen - 1), Txt("]: "), NL>>

YieldEvery1000(i) == i % 1000 = 0

YieldDue(i) == i % 100 = 0

dumpRawEntryLate(r, i) ==
    <<(IF i % 2 = 0 THEN Txt("-") ELSE Txt("   +")),
      Dec6(r.rawbuf[i] * RAWTICK)>>
    \o (IF i < r.rawlen THEN <<Txt(", ")>> ELSE <<>>)
    \o (IF i % 8 = 0 THEN <<NL>> ELSE <<>>)

dumpRawEntry(r, i) ==
    <<(IF i % 2 = 0 THEN Txt("-") ELSE Txt("   +")),
      Dec6(r.rawbuf[i] * RAWTICK)>>
    \o (IF i < r.rawlen - 1 THEN <<Txt(", ")>> ELSE <<>>)
    \o (IF i % 8 = 0 THEN <<NL>> ELSE <<>>)

(***************************************************************************)
(* dumpCode(): declaration, one entry per loop iteration, trailer.         *)
(***************************************************************************)
dumpCodeHeader == <<Txt("uint16_t "), Txt("rawData[")>>

dumpCodeSize(len) == <<Dec(len), Txt("] = {")>>

(* The inner for loop of one entry and the Serial.print(usecs, DEC) after
   it: printf("%d, 0", UINT16_MAX) prints 65535, a comma and a 0. *)
RECURSIVE ChunkLoopWide(_)
ChunkLoopWide(u) ==
    IF u > UINT16_MAX
    THEN <<Dec(UINT16_MAX), Txt(", "), Dec(0)>> \o ChunkLoopWide(u - (UINT16_MAX + 1))
    ELSE <<Dec(u)>>

RECURSIVE ChunkLoopGe(_)
ChunkLoopGe(u) ==
    IF u >= UINT16_MAX
    THEN <<Dec(UINT16_MAX), Txt(", "), Dec(0)>> \o ChunkLoopGe(u - UINT16_MAX)
    ELSE <<Dec(u)>>

RECURSIVE ChunkLoop(_)
ChunkLoop(u) ==
    IF u > UINT16_MAX
    THEN <<Dec(UINT16_MAX), Txt(", "), Dec(0)>> \o ChunkLoop(u - UINT16_MAX)
    ELSE <<Dec(u)>>

dumpCodeEntry(r, i) ==
    ChunkLoop(r.rawbuf[i] * RAWTICK)
    \o (IF i < r.rawlen - 1 THEN <<Txt(", ")>> ELSE <<>>)
    \o (IF i % 2 = 0 THEN <<Txt(" ")>> ELSE <<>>)

knownCodesAnd(r) ==
    IF r.decode_type # "UNKNOWN"
    THEN (IF r.address > 0 /\ r.command > 0
          THEN <<Txt("uint32_t address = 0x"), Hex(r.address), Txt(";"), NL,
                 Txt("uint32_t command = 0x"), Hex(r.command), Txt(";"), NL>>
          ELSE <<>>)
         \o <<Txt("uint64_t data = 0x"), Hex(r.value), Txt(";"), NL>>
    ELSE <<>>

knownCodes(r) ==
    IF r.decode_type # "UNKNOWN"
    THEN (IF r.address > 0 \/ r.command > 0
          THEN <<Txt("uint32_t address = 0x"), Hex(r.address), Txt(";"), NL,
                 Txt("uint32_t command = 0x"), Hex(r.command), Txt(";"), NL>>
          ELSE <<>>)
         \o <<Txt("uint64_t data = 0x"), Hex(r.value), Txt(";"), NL>>
    ELSE <<>>

dumpCodeTrailer(r) ==
    <<Txt("};"), Txt("  // ")>> \o encoding(r) \o <<Txt(" "), Hex(r.value), NL>>
    \o knownCodes(r)

(***************************************************************************)
(* The formatters as steps, in the order of loop() lines 208-213.          *)
(***************************************************************************)
DumpInfo ==
    /\ pc = "dumpInfo"
    /\ out' = out \o dumpInfoOut(results)
    /\ pc' = "dumpRaw"
    /\ UNCHANGED <<results, idx, length, yieldLog, saveBuf, recvEnabled,
                   sendBegun, restarts, sends, usecs, chunk>>

DumpRawBegin ==
    /\ pc = "dumpRaw"
    /\ out' = out \o dumpRawHeader(results)
    /\ idx' = 1
    /\ pc' = "dumpRawLoop"
    /\ UNCHANGED <<results, length, yieldLog, saveBuf, recvEnabled, sendBegun,
                   restarts, sends, usecs, chunk>>

DumpRawEntry ==
    /\ pc = "dumpRawLoop"
    /\ idx < results.rawlen
    /\ yieldLog' = IF YieldDue(idx)
                   THEN Append(yieldLog, [fn |-> "dumpRaw", i |-> idx, at |-> Len(out)])
                   ELSE yieldLog
    /\ out' = out \o dumpRawEntry(results, idx)
    /\ idx' = (idx + 1) % 65536
    /\ UNCHANGED <<pc, results, length, saveBuf, recvEnabled, sendBegun,
                   restarts, sends, usecs, chunk>>

DumpRawEnd ==
    /\ pc = "dumpRawLoop"
    /\ ~(idx < results.rawlen)
    /\ out' = Append(out, NL)
    /\ pc' = "dumpCode"
    /\ UNCHANGED <<results, idx, length, yieldLog, saveBuf, recvEnabled,
                   sendBegun, restarts, sends, usecs, chunk>>

DumpCodeBegin ==
    /\ pc = "dumpCode"
    /\ out' = out \o dumpCodeHeader
    /\ length' = getCookedLengthInit(results)
    /\ idx' = 0
    /\ pc' = "getCookedLength"
    /\ UNCHANGED <<results, yieldLog, saveBuf, recvEnabled, sendBegun,
                   restarts, sends, usecs, chunk>>

GetCookedLengthStep ==
    /\ pc = "getCookedLength"
    /\ idx < results.rawlen - 1
    /\ length' = getCookedLengthAdd(results, idx, length)
    /\ idx' = (idx + 1) % 65536
    /\ UNCHANGED <<pc, out, results, yieldLog, saveBuf, recvEnabled,
                   sendBegun, restarts, sends, usecs, chunk>>

GetCookedLengthReturn ==
    /\ pc = "getCookedLength"
    /\ ~(idx < results.rawlen - 1)
    /\ out' = out \o dumpCodeSize(length)
    /\ idx' = 1
    /\ pc' = "dumpCodeLoop"
    /\ UNCHANGED <<results, length, yieldLog, saveBuf, recvEnabled, sendBegun,
                   restarts, sends, usecs, chunk>>

DumpCodeEntry ==
    /\ pc = "dumpCodeLoop"
    /\ idx < results.rawlen
    /\ out' = out \o dumpCodeEntry(results, idx)
    /\ idx' = (idx + 1) % 65536
    /\ UNCHANGED <<pc, results, length, yieldLog, saveBuf, recvEnabled,
                   sendBegun, restarts, sends, usecs, chunk>>

DumpCodeEnd ==
    /\ pc = "dumpCodeLoop"
    /\ ~(idx < results.rawlen)
    /\ out' = out \o dumpCodeTrailer(results)
    /\ pc' = "blank"
    /\ UNCHANGED <<results, idx, length, yieldLog, saveBuf, recvEnabled,
                   sendBegun, restarts, sends, usecs, chunk>>

BlankLine ==
    /\ pc = "blank"
    /\ out' = Append(out, NL)
    /\ pc' = "done"
    /\ UNCHANGED <<results, idx, length, yieldLog, saveBuf, recvEnabled,
                   sendBegun, restarts, sends, usecs, chunk>>

NextDump ==
    \/ DumpInfo
    \/ DumpRawBegin
    \/ DumpRawEntry
    \/ DumpRawEnd
    \/ DumpCodeBegin
    \/ GetCookedLengthStep
    \/ GetCookedLengthReturn
    \/ DumpCodeEntry
    \/ DumpCodeEnd
    \/ BlankLine

(***************************************************************************)
(* The chunking loop alone, applied to one duration.                       *)
(***************************************************************************)
Emit ==
    /\ pc = "emit"
    /\ chunk' = ChunkLoop(usecs)
    /\ pc' = "emitted"
    /\ UNCHANGED <<out, results, idx, length, yieldLog, saveBuf, recvEnabled,
                   sendBegun, restarts, sends, usecs>>

NextEmit == Emit

(***************************************************************************)
(* setup() and loop() as compiled.                                         *)
(***************************************************************************)
AllocFailureMessage ==
    <<Txt("Could not allocate a "), Dec(CAPTURE_BUFFER_SIZE),
      Txt(" buffer size for the save buffer.\nTry a smaller size for CAPTURE_BUFFER_SIZE.\nRebooting!")>>

(* Serial.begin and delay(500). *)
SetupSerial ==
    /\ pc = "setup"
    /\ pc' = "setup_alloc"
    /\ UNCHANGED <<out, results, idx, length, yieldLog, saveBuf, recvEnabled,
                   sendBegun, restarts, sends, usecs, chunk>>

(* save.rawbuf = new uint16_t[...]: the allocation succeeds or yields NULL. *)
SetupAlloc ==
    /\ pc = "setup_alloc"
    /\ \/ saveBuf' = "allocated"
       \/ restarts < MaxRestarts /\ saveBuf' = "NULL"
    /\ pc' = "setup_check"
    /\ UNCHANGED <<out, results, idx, length, yieldLog, recvEnabled,
                   sendBegun, restarts, sends, usecs, chunk>>

SetupCheckNoRestart ==
    /\ pc = "setup_check"
    /\ out' = IF saveBuf = "NULL" THEN out \o AllocFailureMessage ELSE out
    /\ pc' = "setup_enable"
    /\ UNCHANGED <<results, idx, length, yieldLog, saveBuf, recvEnabled,
                   sendBegun, restarts, sends, usecs, chunk>>

(* if (save.rawbuf == NULL) { printf; ESP.restart(); } *)
SetupCheck ==
    /\ pc = "setup_check"
    /\ IF saveBuf = "NULL"
       THEN /\ out' = out \o AllocFailureMessage
            /\ pc' = "restarting"
       ELSE /\ out' = out
            /\ pc' = "setup_enable"
    /\ UNCHANGED <<results, idx, length, yieldLog, saveBuf, recvEnabled,
                   sendBegun, restarts, sends, usecs, chunk>>

(* ESP.restart(): the chip reboots and the sketch starts over in setup(). *)
Restart ==
    /\ pc = "restarting"
    /\ pc' = "setup"
    /\ saveBuf' = "unallocated"
    /\ recvEnabled' = FALSE
    /\ sendBegun' = FALSE
    /\ restarts' = restarts + 1
    /\ UNCHANGED <<out, results, idx, length, yieldLog, sends, usecs, chunk>>

(* irrecv.enableIRIn() *)
SetupEnable ==
    /\ pc = "setup_enable"
    /\ recvEnabled' = TRUE
    /\ pc' = "setup_begin"
    /\ UNCHANGED <<out, results, idx, length, yieldLog, saveBuf, sendBegun,
                   restarts, sends, usecs, chunk>>

(* irsend.begin(); setup() returns and loop() is called from then on. *)
SetupBegin ==
    /\ pc = "setup_begin"
    /\ sendBegun' = TRUE
    /\ pc' = "loop"
    /\ UNCHANGED <<out, results, idx, length, yieldLog, saveBuf, recvEnabled,
                   restarts, sends, usecs, chunk>>

(* loop(): the decode/dump block is compiled out; delay, print, send. *)
Loop ==
    /\ pc = "loop"
    /\ sends < MaxSends
    /\ out' = out \o <<Txt("send YAMATO"), NL>>
    /\ sends' = sends + 1
    /\ UNCHANGED <<pc, results, idx, length, yieldLog, saveBuf, recvEnabled,
                   sendBegun, restarts, usecs, chunk>>

Next ==
    \/ SetupSerial
    \/ SetupAlloc
    \/ SetupCheck
    \/ Restart
    \/ SetupEnable
    \/ SetupBegin
    \/ Loop

(***************************************************************************)
(* Initial states.                                                         *)
(***************************************************************************)
NoResults ==
    [rawlen |-> 1, rawbuf |-> [i \in 0..0 |-> 0], overflow |-> FALSE,
     repeat |-> FALSE, decode_type |-> "UNKNOWN", value |-> 0, bits |-> 0,
     address |-> 0, command |-> 0]

Init ==
    /\ pc = "setup"
    /\ out = <<>>
    /\ results = NoResults
    /\ idx = 0
    /\ length = 0
    /\ yieldLog = <<>>
    /\ saveBuf = "unallocated"
    /\ recvEnabled = FALSE
    /\ sendBegun = FALSE
    /\ restarts = 0
    /\ sends = 0
    /\ usecs = 0
    /\ chunk = <<>>

(* What the decoder leaves in decode_results: UNKNOWN carries no address or
   command; a decoded protocol carries any, and may be a repeat. *)
DecodedFields ==
    {[decode_type |-> "UNKNOWN", value |-> 0, bits |-> 0, address |-> 0, command |-> 0,
      repeat |-> FALSE]}
    \cup {[decode_type |-> "YAMATO", value |-> 1, bits |-> 32, address |-> a, command |-> c,
           repeat |-> FALSE] : a \in {0, 1}, c \in {0, 1}}
    \cup {[decode_type |-> "NEC", value |-> 1, bits |-> 32, address |-> 0, command |-> 0,
           repeat |-> TRUE]}

AfterSetup ==
    /\ out = <<>>
    /\ idx = 0
    /\ length = 0
    /\ yieldLog = <<>>
    /\ saveBuf = "allocated"
    /\ recvEnabled = TRUE
    /\ sendBegun = TRUE
    /\ restarts = 0
    /\ sends = 0
    /\ usecs = 0
    /\ chunk = <<>>

InitDump ==
    /\ pc = "dumpInfo"
    /\ \E n \in 1..MaxRawLen :
       \E buf \in [0..(n - 1) -> TickValues] :
       \E f \in DecodedFields :
       \E ov \in BOOLEAN :
          results = [rawlen |-> n, rawbuf |-> buf, overflow |-> ov, repeat |-> f.repeat,
                     decode_type |-> f.decode_type, value |-> f.value, bits |-> f.bits,
                     address |-> f.address, command |-> f.command]
    /\ AfterSetup

(* Long captures: every length up to MaxLongLen, a mark of 618 us with every
   fifth entry a gap of 80000 us. *)
LongBuf(n) == [i \in 0..(n - 1) |-> IF i % 5 = 2 THEN 40000 ELSE 309]

InitLong ==
    /\ pc = "dumpInfo"
    /\ \E n \in 1..MaxLongLen :
       \E ov \in BOOLEAN :
          results = [rawlen |-> n, rawbuf |-> LongBuf(n), overflow |-> ov, repeat |-> FALSE,
                     decode_type |-> IF ov THEN "UNKNOWN" ELSE "YAMATO",
                     value |-> 1, bits |-> 32,
                     address |-> 1, command |-> 0]
    /\ AfterSetup

InitEmit ==
    /\ pc = "emit"
    /\ usecs \in 0..(UINT16_MAX * RAWTICK)
    /\ chunk = <<>>
    /\ results = NoResults
    /\ out = <<>>
    /\ idx = 0
    /\ length = 0
    /\ yieldLog = <<>>
    /\ saveBuf = "allocated"
    /\ recvEnabled = TRUE
    /\ sendBegun = TRUE
    /\ restarts = 0
    /\ sends = 0

(***************************************************************************)
(* Specifications.                                                         *)
(***************************************************************************)
Spec == Init /\ [][Next]_vars

SpecDump == InitDump /\ [][NextDump]_vars

(* loop() runs its statements one after the other and none of them blocks. *)
FairSpecDump == InitDump /\ [][NextDump]_vars /\ WF_vars(NextDump)

SpecLong == InitLong /\ [][NextDump]_vars

SpecEmit == InitEmit /\ [][NextEmit]_vars

(***************************************************************************)
(* Reading the output back.                                                *)
(***************************************************************************)
Has(t) == \E j \in DOMAIN out : out[j] = t

(* The items dumpCode wrote between "{" and "}". *)
CodeOpen == CHOOSE j \in DOMAIN out : out[j] = Txt("] = {")
CodeClose == CHOOSE j \in DOMAIN out : out[j] = Txt("};")
CodeBody == SubSeq(out, CodeOpen + 1, CodeClose - 1)
DeclaredSize == out[CodeOpen - 1].n

NumPositions(s) == {j \in DOMAIN s : IsNum(s[j])}

(* The number of values the chunking loop emits for the durations of
   rawbuf[1..rawlen-1]. *)
RECURSIVE EmittedFrom(_, _)
EmittedFrom(r, i) ==
    IF i < r.rawlen
    THEN Len(Values(ChunkLoop(r.rawbuf[i] * RAWTICK))) + EmittedFrom(r, i + 1)
    ELSE 0

(***************************************************************************)
(* Claims.                                                                 *)
(***************************************************************************)

(* C1: getCookedLength(results) equals the number of values the chunking
   loop emits for the durations of rawbuf[1..rawlen-1], so the size declared
   in rawData[N] equals the number of values written between the braces. *)
C1_CookedLengthIsEmittedCount ==
    pc = "done" =>
        /\ length = EmittedFrom(results, 1)
        /\ DeclaredSize = length
        /\ DeclaredSize = Len(Values(CodeBody))

(* C2: the values emitted for a duration sum to the duration. *)
C2_RoundTrip ==
    pc = "emitted" => Sum(Values(chunk)) = usecs

C2_Witness ==
    /\ pc = "emitted"
    /\ usecs = UINT16_MAX * RAWTICK
    /\ Len(Values(chunk)) > 1
    /\ Sum(Values(chunk)) = usecs

(* C3: a duration in (65535, 131070] is emitted as exactly the three values
   65535, 0, d - 65535, in that order. *)
C3_ThreeValues ==
    (pc = "emitted" /\ usecs > UINT16_MAX /\ usecs <= 2 * UINT16_MAX) =>
        Values(chunk) = <<UINT16_MAX, 0, usecs - UINT16_MAX>>

C3_Witness ==
    /\ pc = "emitted"
    /\ usecs = UINT16_MAX + 1
    /\ Values(chunk) = <<UINT16_MAX, 0, 1>>

(* C4: between the braces every value is separated from the next value by a
   comma, and no comma follows the last value. *)
C4_CommaSeparated ==
    pc = "done" =>
        LET body == CodeBody
            nums == NumPositions(body)
        IN  /\ \A p \in nums : \A q \in nums :
                   (p < q /\ ~(\E m \in nums : p < m /\ m < q)) =>
                       \E c \in (p + 1)..(q - 1) : body[c] = Txt(", ")
            /\ \A p \in nums :
                   (~(\E q \in nums : q > p)) =>
                       ~(\E c \in DOMAIN body : c > p /\ body[c] = Txt(", "))

(* C5: with the overflow flag set the warning naming CAPTURE_BUFFER_SIZE is
   the first output, ahead of everything dumpRaw and dumpCode write, and the
   run still reaches the end with the raw dump and the literal complete. *)
DumpsComplete ==
    /\ pc = "done"
    /\ Cardinality({j \in DOMAIN out : out[j].s = "%6d"}) = results.rawlen - 1
    /\ Has(Txt("Timing["))
    /\ Has(Txt("] = {"))
    /\ Has(Txt("};"))
    /\ Len(Values(CodeBody)) >= results.rawlen - 1

C5_WarningThenDumps ==
    /\ [](results.overflow =>
            /\ (out # <<>> => (Len(out) >= 3 /\ SubSeq(out, 1, 3) = OverflowWarning))
            /\ \A j \in DOMAIN out :
                   out[j] \in {Txt("Timing["), Txt("uint16_t ")} => j > 3)
    /\ (results.overflow ~> DumpsComplete)

C5_Witness ==
    /\ results.overflow
    /\ results.rawlen = 3
    /\ DumpsComplete
    /\ SubSeq(out, 1, 3) = OverflowWarning

(* C6: dumpRaw writes a newline after entry i iff i mod 8 = 0, and a comma
   after every entry but the last (i = rawlen - 1). *)
C6_EightPerLineNoTrailingComma ==
    [][(pc = "dumpRawLoop" /\ idx < results.rawlen) =>
          LET app == SubSeq(out', Len(out) + 1, Len(out'))
              commas == {j \in DOMAIN app : app[j] = Txt(", ")}
              lines == {j \in DOMAIN app : app[j] = NL}
          IN  /\ Len(app) >= 2
              /\ IsNum(app[2])
              /\ commas = (IF idx < results.rawlen - 1 THEN {3} ELSE {})
              /\ lines = (IF idx % 8 = 0 THEN {Len(app)} ELSE {})
              /\ Len(app) = 2 + Cardinality(commas) + Cardinality(lines)]_vars

C6_Witness ==
    /\ pc = "dumpRawLoop"
    /\ results.rawlen = 17
    /\ idx = 17
    /\ out[Len(out)] = NL
    /\ IsNum(out[Len(out) - 1])

(* C7: the address and command lines are both absent when address and command
   are both 0 and both present when either is nonzero; the data line is
   present whenever a decode is present. *)
C7_AddressCommandLines ==
    pc = "done" =>
        /\ (results.address = 0 /\ results.command = 0) =>
               (~Has(Txt("uint32_t address = 0x")) /\ ~Has(Txt("uint32_t command = 0x")))
        /\ (results.address > 0 \/ results.command > 0) =>
               (Has(Txt("uint32_t address = 0x")) /\ Has(Txt("uint32_t command = 0x")))
        /\ results.decode_type # "UNKNOWN" => Has(Txt("uint64_t data = 0x"))

C7_Witness ==
    /\ pc = "done"
    /\ results.address = 0
    /\ results.command = 1
    /\ Has(Txt("uint32_t address = 0x"))
    /\ Has(Txt("uint64_t data = 0x"))

(* C8: with save.rawbuf NULL the sketch goes from the check to the restart
   and nowhere else: the receiver is never enabled and loop() never runs. *)
C8_AllocFailureIsFatal ==
    saveBuf = "NULL" =>
        /\ pc \in {"setup_check", "restarting"}
        /\ ~recvEnabled
        /\ ~sendBegun

C8_Witness ==
    /\ saveBuf = "NULL"
    /\ pc = "restarting"
    /\ Has(Txt("Could not allocate a "))

(* C10: dumpRaw calls yield() before printing entry i exactly when
   i mod 100 = 0, so at most 100 entries are printed between two yields, and
   no other formatter yields. *)
C10_YieldEvery100 ==
    /\ \A j \in DOMAIN yieldLog :
           /\ yieldLog[j].fn = "dumpRaw"
           /\ yieldLog[j].i = 100 * j
    /\ pc = "dumpInfo" \/ pc = "dumpRaw" => yieldLog = <<>>
    /\ pc = "dumpRawLoop" =>
           /\ Len(yieldLog) = (idx - 1) \div 100
           /\ idx - (IF yieldLog = <<>> THEN 1 ELSE yieldLog[Len(yieldLog)].i) <= 100
           /\ (yieldLog # <<>> /\ idx = yieldLog[Len(yieldLog)].i + 1) =>
                  yieldLog[Len(yieldLog)].at
                      = Len(out) - Len(dumpRawEntry(results, idx - 1))
    /\ pc \in {"dumpCode", "getCookedLength", "dumpCodeLoop", "blank", "done"} =>
           Len(yieldLog) = (results.rawlen - 1) \div 100

C10_Witness ==
    /\ pc = "done"
    /\ Len(yieldLog) = 2
    /\ yieldLog[2].i = 200

====
